---- MODULE Spec2Model ----
(***************************************************************************)
(* Model of source/codes/L7/osmnx_L7_routing.py: the script that takes a   *)
(* projected street graph, picks an origin (centroid of the bounding box   *)
(* of the edges) and a target (the easternmost node), snaps both to graph  *)
(* nodes with ox.get_nearest_node, routes between them with                *)
(* nx.shortest_path(..., weight='distance'), and builds a one-row route    *)
(* record (LineString of the route's nodes, osmids, length_m).             *)
(*                                                                         *)
(* The graph is the networkx MultiDiGraph the script holds in graph_proj:  *)
(*   nodes  the node identifiers in the graph's node iteration order       *)
(*   xy     node -> <<x, y>> (node attributes 'x', 'y')                    *)
(*   adj    node -> the out-edges of the node in insertion order, each     *)
(*          [v |-> head node, attrs |-> attribute map of the edge]         *)
(* Coordinates are even integers so that the bounding-box centroid is      *)
(* representable; a floating point square root is modelled as a fixed      *)
(* point number with two decimals (Sqrt100).  The geometry of an edge is   *)
(* the straight line between its end nodes.  The library calls are         *)
(* modelled step by step as networkx and osmnx carry them out: Dijkstra    *)
(* with a heap of (distance, counter, node), neighbours in adjacency       *)
(* order, attr.get(weight, 1) minimised over parallel edges; the nearest   *)
(* node as the first minimum of the distance column.                       *)
(***************************************************************************)
EXTENDS Integers, Sequences, FiniteSets, TLC

VARIABLES nodes, xy, adj, weight, pc, error,
          orig_point, target_point, orig_xy, target_xy,
          orig_node, target_node, route, route_line, osmids, length_m

vars == <<nodes, xy, adj, weight, pc, error, orig_point, target_point,
          orig_xy, target_xy, orig_node, target_node, route, route_line,
          osmids, length_m>>

(* ---------------------------- bounds ----------------------------------- *)
MaxNodes == 3
MaxEdges == 2
MaxCoord == 1
MaxLen == 3
MaxNodesSP == 4
MaxEdgesSP == 4

(* ---------------------------- helpers ---------------------------------- *)
Range(s) == {s[i] : i \in 1..Len(s)}

Perms(S) == {s \in [1..Cardinality(S) -> S] : Range(s) = S}

Last(s) == s[Len(s)]

RECURSIVE SqrtSearch(_, _, _)
SqrtSearch(m, lo, hi) ==
    IF lo >= hi THEN lo
    ELSE LET mid == (lo + hi + 1) \div 2
         IN  IF mid * mid <= m THEN SqrtSearch(m, mid, hi)
                               ELSE SqrtSearch(m, lo, mid - 1)

\* numpy sqrt of a squared distance, kept to two decimals: floor(100 * sqrt(n))
Sqrt100(n) == SqrtSearch(10000 * n, 0, 100 * n)

(* ----------------------- the graph (graph_proj) ------------------------ *)
\* the edge attribute table: every edge carries 'length'; no edge carries
\* 'distance'
EdgeAttrs(len) == [length |-> len]

Edge(v, len) == [v |-> v, attrs |-> EdgeAttrs(len)]

NodeSet == Range(nodes)

\* node attribute 'osmid' (column osmid of nodes_proj): the node identifier
NodeOsmid(n) == n

\* the out-edges of u that lead to v (parallel edges of the pair u, v)
Parallel(G, u, v) == {i \in 1..Len(G[u]) : G[u][i].v = v}

HasEdge(G, u, v) == Parallel(G, u, v) # {}

\* the number of edges of the graph
NumEdges(G) ==
    Cardinality(UNION {{<<u, i>> : i \in 1..Len(G[u])} : u \in DOMAIN G})

Coords == {2 * i : i \in 0..MaxCoord}

\* the edge lengths the graphs are built from: short and long
Lengths == {1, MaxLen}

(* --------------- nx.shortest_path(G, source, target, weight) ----------- *)
SetMin(S) == CHOOSE m \in S : \A x \in S : m <= x

SetMax(S) == CHOOSE m \in S : \A x \in S : m >= x

\* attr.get(weight, 1): an edge that does not carry the key weighs 1
AttrGet(attrs, key) == IF key \in DOMAIN attrs THEN attrs[key] ELSE 1

\* the weight function taking the heaviest parallel edge
WeightFunctionMax(G, u, v, key) ==
    SetMax({AttrGet(G[u][i].attrs, key) : i \in Parallel(G, u, v)})

\* the multigraph weight function: min(attr.get(weight, 1) for attr in
\* d.values()) over the parallel edges of u -> v
WeightFunction(G, u, v, key) ==
    SetMin({AttrGet(G[u][i].attrs, key) : i \in Parallel(G, u, v)})

RECURSIVE FirstSeen(_, _)
\* the distinct heads of an out-edge list in order of first insertion
FirstSeen(es, acc) ==
    IF es = <<>> THEN acc
    ELSE FirstSeen(Tail(es),
                   IF Head(es).v \in Range(acc) THEN acc
                   ELSE Append(acc, Head(es).v))

\* iteration order of G_succ[v].items()
Successors(G, v) == FirstSeen(G[v], <<>>)

\* a heap ordered by the counter alone (first in, first out)
HeapFirstIn(fringe) ==
    CHOOSE e \in fringe : \A f \in fringe : e[2] <= f[2]

\* heappop on (distance, counter, node) tuples
HeapMin(fringe) ==
    CHOOSE e \in fringe :
        \A f \in fringe : e[1] < f[1] \/ (e[1] = f[1] /\ e[2] <= f[2])

RECURSIVE RelaxAll(_, _, _, _, _)
\* the loop "for u, e in G_succ[v].items()" of the Dijkstra search
RelaxAll(G, st, v, nbrs, key) ==
    IF nbrs = <<>> THEN st
    ELSE LET u == Head(nbrs)
             vu_dist == st.dist[v] + WeightFunction(G, v, u, key)
             st1 == IF st.dist[u] # -1 THEN st
                    ELSE IF st.seen[u] = -1 \/ vu_dist < st.seen[u]
                    THEN [st EXCEPT !.seen[u] = vu_dist,
                                    !.fringe = @ \cup {<<vu_dist, st.c, u>>},
                                    !.c = @ + 1,
                                    !.paths[u] = Append(st.paths[v], u)]
                    ELSE st
         IN  RelaxAll(G, st1, v, Tail(nbrs), key)

RECURSIVE DijkstraLoop(_, _, _, _)
\* the loop "while fringe" of the Dijkstra search
DijkstraLoop(G, st, target, key) ==
    IF st.fringe = {} THEN st
    ELSE LET e == HeapMin(st.fringe)
             d == e[1]
             v == e[3]
             st1 == [st EXCEPT !.fringe = @ \ {e}]
         IN  IF st1.dist[v] # -1 THEN DijkstraLoop(G, st1, target, key)
             ELSE LET st2 == [st1 EXCEPT !.dist[v] = d]
                  IN  IF v = target THEN st2
                      ELSE DijkstraLoop(G,
                               RelaxAll(G, st2, v, Successors(G, v), key),
                               target, key)

\* the search state after the Dijkstra search from source
Dijkstra(G, source, target, key) ==
    DijkstraLoop(G,
        [dist |-> [n \in DOMAIN G |-> -1],
         seen |-> [n \in DOMAIN G |-> IF n = source THEN 0 ELSE -1],
         paths |-> [n \in DOMAIN G |-> IF n = source THEN <<source>> ELSE <<>>],
         fringe |-> {<<0, 0, source>>},
         c |-> 1],
        target, key)

\* a search that returns the source alone instead of raising
ShortestPathNoRaise(G, source, target, key) ==
    IF source = target THEN <<source>>
    ELSE LET r == Dijkstra(G, source, target, key).paths[target]
         IN  IF r = <<>> THEN <<source>> ELSE r

\* nx.shortest_path with a weight: the node list of the path, or <<>> when
\* the search raises NetworkXNoPath
ShortestPath(G, source, target, key) ==
    IF source = target THEN <<source>>
    ELSE Dijkstra(G, source, target, key).paths[target]

\* the distance label the search gives the target (-1: not reached)
ShortestPathLength(G, source, target, key) ==
    IF source = target THEN 0
    ELSE Dijkstra(G, source, target, key).dist[target]

(* ------------------- ox.get_nearest_node, euclidean -------------------- *)
\* euclidean_dist_vec(y1, x1, y2, x2) = ((x1 - x2)^2 + (y1 - y2)^2) ^ 0.5
euclidean_dist_vec(y1, x1, y2, x2) ==
    Sqrt100((x1 - x2) * (x1 - x2) + (y1 - y2) * (y1 - y2))

\* the distance column with the point read as an (x, y) tuple
distances_xy(n, point) ==
    euclidean_dist_vec(point[2], point[1], xy[n][2], xy[n][1])

\* the distance column: point is a (y, x) tuple, as the call passes it
distances(n, point) ==
    euclidean_dist_vec(point[1], point[2], xy[n][2], xy[n][1])

\* the index label of the last occurrence of the minimum
idxmin_last(order, point) ==
    LET m == SetMin({distances(order[i], point) : i \in 1..Len(order)})
        i == SetMax({j \in 1..Len(order) : distances(order[j], point) = m})
    IN  order[i]

\* Series.idxmin(): the index label of the first occurrence of the minimum
idxmin(order, point) ==
    LET m == SetMin({distances(order[i], point) : i \in 1..Len(order)})
        i == SetMin({j \in 1..Len(order) : distances(order[j], point) = m})
    IN  order[i]

get_nearest_node(order, point) == idxmin(order, point)

(* ----------------- origin and target points of the script -------------- *)
\* the nodes the edge geometries of edges_proj run through (an edge's
\* geometry is the line from its tail node to its head node)
EdgeNodes ==
    {u \in NodeSet : adj[u] # <<>>}
    \cup UNION {{adj[u][i].v : i \in 1..Len(adj[u])} : u \in NodeSet}

\* edges_proj.unary_union.bounds: (minx, miny, maxx, maxy)
bounds ==
    <<SetMin({xy[n][1] : n \in EdgeNodes}), SetMin({xy[n][2] : n \in EdgeNodes}),
      SetMax({xy[n][1] : n \in EdgeNodes}), SetMax({xy[n][2] : n \in EdgeNodes})>>

\* box(*bounds).centroid as the point <<x, y>>
centroid(b) == <<(b[1] + b[3]) \div 2, (b[2] + b[4]) \div 2>>

\* nodes_proj['x'].max()
maxx == SetMax({xy[n][1] : n \in NodeSet})

\* nodes_proj.loc[nodes_proj['x'] == maxx, :] : the rows in node order
target_loc == SelectSeq(nodes, LAMBDA n : xy[n][1] = maxx)

\* the Point geometry of a node row
Geometry(n) == <<xy[n][1], xy[n][2]>>

(* ----------------------------- route record ---------------------------- *)
\* nodes_proj.loc[route]: the rows of the route's nodes, in route order
route_nodes(r) == r

\* LineString(points): the coordinate sequence; fewer than two points raise
\* ValueError, modelled as <<>>
LineString(points) == IF Len(points) < 2 THEN <<>> ELSE points

\* the distance between the two ends of a line
LineLengthEnds(line) ==
    IF Len(line) < 2 THEN 0
    ELSE euclidean_dist_vec(line[1][2], line[1][1],
                            line[Len(line)][2], line[Len(line)][1])

RECURSIVE LineLength(_)
\* GeoSeries.length of a line: the sum of the lengths of its segments
LineLength(line) ==
    IF Len(line) < 2 THEN 0
    ELSE euclidean_dist_vec(line[1][2], line[1][1], line[2][2], line[2][1])
         + LineLength(Tail(line))

RECURSIVE Join(_)
\* the items of a list display separated by ", "
Join(items) ==
    IF items = <<>> THEN <<>>
    ELSE IF Len(items) = 1 THEN <<ToString(items[1])>>
    ELSE <<ToString(items[1]), ", ">> \o Join(Tail(items))

\* the display of a list without its last item
StrListButLast(values) ==
    <<"[">> \o Join(SubSeq(values, 1, Len(values) - 1)) \o <<"]">>

\* str(list(values)): the display "[a, b, c]" as a sequence of tokens
StrList(values) == <<"[">> \o Join(values) \o <<"]">>

(* ------------------------------- steps --------------------------------- *)
\* lines 120-141: the origin point (bounding-box centroid) and the target
\* point (geometry of the first node with the largest x)
Points ==
    /\ pc = "points"
    /\ orig_point' = centroid(bounds)
    /\ target_point' = Geometry(target_loc[1])
    /\ pc' = "nearest"
    /\ UNCHANGED <<nodes, xy, adj, weight, error, orig_xy, target_xy,
                   orig_node, target_node, route, route_line, osmids, length_m>>

\* lines 150-153: (y, x) tuples of the two points and their nearest nodes
NearestNodes ==
    /\ pc = "nearest"
    /\ orig_xy' = <<orig_point[2], orig_point[1]>>
    /\ target_xy' = <<target_point[2], target_point[1]>>
    /\ orig_node' = get_nearest_node(nodes, orig_xy')
    /\ target_node' = get_nearest_node(nodes, target_xy')
    /\ pc' = "shortest_path"
    /\ UNCHANGED <<nodes, xy, adj, weight, error, orig_point, target_point,
                   route, route_line, osmids, length_m>>

\* line 168: route = nx.shortest_path(G=graph_proj, source=orig_node,
\* target=target_node, weight='distance'); NetworkXNoPath ends the script
ShortestPathStep ==
    /\ pc = "shortest_path"
    /\ LET r == ShortestPath(adj, orig_node, target_node, weight)
       IN  IF r = <<>>
           THEN /\ error' = "NetworkXNoPath"
                /\ pc' = "failed"
                /\ route' = route
           ELSE /\ route' = r
                /\ pc' = "route_line"
                /\ error' = error
    /\ UNCHANGED <<nodes, xy, adj, weight, orig_point, target_point, orig_xy,
                   target_xy, orig_node, target_node, route_line, osmids,
                   length_m>>

\* lines 189-194: route_nodes and route_line; LineString raises ValueError
\* on fewer than two points, which ends the script
RouteLine ==
    /\ pc = "route_line"
    /\ LET line == LineString([i \in 1..Len(route_nodes(route)) |->
                                  Geometry(route_nodes(route)[i])])
       IN  IF line = <<>>
           THEN /\ error' = "ValueError"
                /\ pc' = "failed"
                /\ route_line' = route_line
           ELSE /\ route_line' = line
                /\ pc' = "route_geom"
                /\ error' = error
    /\ UNCHANGED <<nodes, xy, adj, weight, orig_point, target_point, orig_xy,
                   target_xy, orig_node, target_node, route, osmids, length_m>>

\* lines 198-205: the one-row route record: geometry, osmids, length_m
RouteGeom ==
    /\ pc = "route_geom"
    /\ osmids' = StrList([i \in 1..Len(route_nodes(route)) |->
                             NodeOsmid(route_nodes(route)[i])])
    /\ length_m' = LineLength(route_line)
    /\ pc' = "done"
    /\ UNCHANGED <<nodes, xy, adj, weight, error, orig_point, target_point,
                   orig_xy, target_xy, orig_node, target_node, route,
                   route_line>>

\* line 40 (and 91): the graph is populated edge by edge; an edge u -> v
\* with its length goes to the end of u's out-edges (no self-loops)
AddEdgeUpTo(max) ==
    /\ pc = "graph"
    /\ NumEdges(adj) < max
    /\ \E u \in NodeSet, v \in NodeSet, len \in Lengths :
          /\ u # v
          /\ adj' = [adj EXCEPT ![u] = Append(@, Edge(v, len))]
    /\ UNCHANGED <<nodes, xy, weight, pc, error, orig_point, target_point,
                   orig_xy, target_xy, orig_node, target_node, route,
                   route_line, osmids, length_m>>

AddEdge == AddEdgeUpTo(MaxEdges)

\* the graph is complete (it has at least one edge) and the analysis starts
Start ==
    /\ pc = "graph"
    /\ NumEdges(adj) > 0
    /\ pc' = "points"
    /\ UNCHANGED <<nodes, xy, adj, weight, error, orig_point, target_point,
                   orig_xy, target_xy, orig_node, target_node, route,
                   route_line, osmids, length_m>>

Unassigned ==
    /\ error = "none"
    /\ orig_point = <<>> /\ target_point = <<>>
    /\ orig_xy = <<>> /\ target_xy = <<>>
    /\ orig_node = 0 /\ target_node = 0
    /\ route = <<>> /\ route_line = <<>> /\ osmids = <<>>
    /\ length_m = -1

\* the script on a projected graph: nodes in any iteration order, at any
\* coordinates; the weight argument is the literal of line 168
Init ==
    /\ nodes \in Perms(1..MaxNodes)
    /\ xy \in [1..MaxNodes -> Coords \X Coords]
    /\ adj = [n \in 1..MaxNodes |-> <<>>]
    /\ weight = "distance"
    /\ pc = "graph"
    /\ Unassigned

Next ==
    \/ AddEdge
    \/ Start
    \/ Points
    \/ NearestNodes
    \/ ShortestPathStep
    \/ RouteLine
    \/ RouteGeom

Spec == Init /\ [][Next]_vars

(* nx.shortest_path as a function of its arguments: any graph, any pair of *)
(* its nodes, a weight key the edges carry ('length') or do not carry      *)
(* ('distance').                                                           *)
WeightKeys == {"distance", "length"}

AddEdgeSP == AddEdgeUpTo(MaxEdgesSP)

\* a call nx.shortest_path(G, source, target, weight=key)
Call ==
    /\ pc = "graph"
    /\ \E s \in NodeSet, t \in NodeSet, key \in WeightKeys :
          /\ orig_node' = s
          /\ target_node' = t
          /\ weight' = key
    /\ pc' = "shortest_path"
    /\ UNCHANGED <<nodes, xy, adj, error, orig_point, target_point, orig_xy,
                   target_xy, route, route_line, osmids, length_m>>

InitSP ==
    /\ nodes = [i \in 1..MaxNodesSP |-> i]
    /\ xy = [n \in 1..MaxNodesSP |-> <<0, 0>>]
    /\ adj = [n \in 1..MaxNodesSP |-> <<>>]
    /\ weight = "length"
    /\ pc = "graph"
    /\ Unassigned

NextSP ==
    \/ AddEdgeSP
    \/ Call
    \/ ShortestPathStep

SpecSP == InitSP /\ [][NextSP]_vars

(* ======================= properties of the steps ======================= *)
\* positions of the script after the shortest-path step has run
AfterShortestPath == pc \in {"route_line", "route_geom", "done", "failed"}

\* positions of the script after the nearest-node step has run
AfterNearest == pc = "shortest_path" \/ AfterShortestPath

RECURSIVE GrowPaths(_, _, _)
\* the simple paths that extend the paths of P by at most k edges
GrowPaths(G, P, k) ==
    IF k = 0 THEN P
    ELSE GrowPaths(G,
             P \cup UNION {{Append(p, G[Last(p)][i].v) :
                               i \in {j \in 1..Len(G[Last(p)]) :
                                         G[Last(p)][j].v \notin Range(p)}} :
                           p \in P},
             k - 1)

\* every simple path from s to t (a walk that repeats a node weighs no less
\* than the simple path inside it, the weights being positive)
SimplePaths(G, s, t) ==
    {p \in GrowPaths(G, {<<s>>}, Cardinality(DOMAIN G) - 1) : Last(p) = t}

\* the weight of one edge under a key, 1 when the edge lacks the key
KeyWeight(e, key) == IF key \in DOMAIN e.attrs THEN e.attrs[key] ELSE 1

\* the weight of the lightest of the parallel edges u -> v
Lightest(G, u, v, key) ==
    LET W == {KeyWeight(G[u][i], key) : i \in Parallel(G, u, v)}
    IN  CHOOSE w \in W : \A x \in W : w <= x

RECURSIVE PathCost(_, _, _)
\* cumulative weight of a node path: the lightest edge of each pair
PathCost(G, p, key) ==
    IF Len(p) < 2 THEN 0
    ELSE Lightest(G, p[1], p[2], key) + PathCost(G, Tail(p), key)

\* C1: whenever a path from s to t exists, the shortest-path step returns a
\* node sequence that starts at s, ends at t, joins consecutive nodes by
\* edges of the graph, and weighs no more than any path from s to t.
C1_ShortestPathOptimal ==
    (pc \in {"route_line", "failed"}
     /\ SimplePaths(adj, orig_node, target_node) # {})
    => /\ pc = "route_line"
       /\ route # <<>>
       /\ Head(route) = orig_node
       /\ Last(route) = target_node
       /\ \A i \in 1..(Len(route) - 1) : HasEdge(adj, route[i], route[i + 1])
       /\ \A p \in SimplePaths(adj, orig_node, target_node) :
             PathCost(adj, route, weight) <= PathCost(adj, p, weight)

\* a two-hop route by length that beats a direct but longer edge
C1_Witness ==
    /\ pc = "route_line"
    /\ weight = "length"
    /\ Len(route) = 3
    /\ HasEdge(adj, orig_node, target_node)
    /\ PathCost(adj, route, weight)
         < PathCost(adj, <<orig_node, target_node>>, weight)

\* C2: when no path leads from s to t, the shortest-path step ends in
\* NetworkXNoPath (Unreachable): no route, partial or empty, is returned and
\* no later step builds anything from a route.
C2_UnreachableRaises ==
    (AfterShortestPath /\ SimplePaths(adj, orig_node, target_node) = {})
    => /\ pc = "failed"
       /\ error = "NetworkXNoPath"
       /\ route = <<>>
       /\ route_line = <<>>
       /\ osmids = <<>>
       /\ length_m = -1

\* the only edge between the two nodes is one-way from target to origin
C2_Witness ==
    /\ pc = "failed"
    /\ error = "NetworkXNoPath"
    /\ orig_node # target_node
    /\ HasEdge(adj, target_node, orig_node)

\* an edge pair is usable under a key when one of its parallel edges
\* carries the key
CarriesKey(G, u, v, key) ==
    \E i \in Parallel(G, u, v) : key \in DOMAIN G[u][i].attrs

\* the simple paths from s to t over edges that carry the key
UsablePaths(G, s, t, key) ==
    {p \in SimplePaths(G, s, t) :
        \A i \in 1..(Len(p) - 1) : CarriesKey(G, p[i], p[i + 1], key)}

\* C3: an edge that lacks the weight key is unusable: the route runs over
\* edges that carry the key only, and the step ends Unreachable when no
\* such path exists.
C3_MissingKeyUnusable ==
    AfterShortestPath
    => IF UsablePaths(adj, orig_node, target_node, weight) = {}
       THEN pc = "failed" /\ error = "NetworkXNoPath"
       ELSE route \in UsablePaths(adj, orig_node, target_node, weight)

RECURSIVE EdgeLengthSum(_, _)
\* the sum over the consecutive pairs of a path of the length of the
\* shortest edge of the pair
EdgeLengthSum(G, p) ==
    IF Len(p) < 2 THEN 0
    ELSE Lightest(G, p[1], p[2], "length") + EdgeLengthSum(G, Tail(p))

\* floor(100 * sqrt(n)) by its defining inequalities
Root100(n) ==
    CHOOSE r \in 0..(100 * n) :
        r * r <= 10000 * n /\ (r + 1) * (r + 1) > 10000 * n

\* straight-line distance between two nodes, two decimals
NodeDistance(a, b) ==
    Root100((xy[a][1] - xy[b][1]) * (xy[a][1] - xy[b][1])
            + (xy[a][2] - xy[b][2]) * (xy[a][2] - xy[b][2]))

RECURSIVE PolylineLength(_)
\* length of the polyline through the nodes of a path
PolylineLength(p) ==
    IF Len(p) < 2 THEN 0
    ELSE NodeDistance(p[1], p[2]) + PolylineLength(Tail(p))

\* C4 as claimed: the total length of the route record is the sum of the
\* weights (lengths) of the lightest edge of each consecutive pair.
C4_LengthIsEdgeSum ==
    pc = "done" => length_m = 100 * EdgeLengthSum(adj, route)

\* C4 amended: the total length of the route record is the straight-line
\* length of the polyline through the coordinates of the route's nodes.
C4_LengthIsPolyline ==
    pc = "done" => length_m = PolylineLength(route)

\* a two-hop route whose polyline is not as long as its edges
C4_Witness ==
    /\ pc = "done"
    /\ Len(route) = 3
    /\ length_m > 0
    /\ length_m # 100 * EdgeLengthSum(adj, route)

\* the entries of a list display: its tokens without the punctuation
Entries(tokens) == SelectSeq(tokens, LAMBDA t : t \notin {"[", ", ", "]"})

\* C5 as claimed: the identifier list has one entry per consecutive node
\* pair of the route, len(route) - 1 entries.
C5_OneEntryPerEdge ==
    pc = "done" => Len(Entries(osmids)) = Len(route) - 1

\* C5 amended: the identifier list is the display of the osmid of each node
\* of the route, one entry per node (len(route) entries), in route order.
C5_OneEntryPerNode ==
    pc = "done"
    => /\ Len(Entries(osmids)) = Len(route)
       /\ \A i \in 1..Len(route) : Entries(osmids)[i] = ToString(route[i])
       /\ Head(osmids) = "["
       /\ Last(osmids) = "]"
       /\ Len(osmids) = 2 * Len(route) + 1

\* a record of a three-node route
C5_Witness ==
    /\ pc = "done"
    /\ Len(route) = 3
    /\ Len(Entries(osmids)) = 3

\* C6: whenever the shortest-path step returned a sequence (s = t included)
\* route reconstruction succeeds, with a line from the coordinate of s to
\* the coordinate of t through the coordinates of the route's nodes.
C6_ReconstructionSucceeds ==
    (route # <<>> /\ pc \in {"route_geom", "done", "failed"})
    => /\ pc # "failed"
       /\ Len(route_line) = Len(route)
       /\ \A i \in 1..Len(route) : route_line[i] = xy[route[i]]
       /\ Head(route_line) = xy[orig_node]
       /\ Last(route_line) = xy[target_node]

\* squared distance from a node to a point <<x, y>>
SquaredDistance(n, point) ==
    (xy[n][1] - point[1]) * (xy[n][1] - point[1])
    + (xy[n][2] - point[2]) * (xy[n][2] - point[2])

\* the nodes at minimal distance from a point
Closest(point) ==
    {n \in NodeSet :
        \A m \in NodeSet : SquaredDistance(n, point) <= SquaredDistance(m, point)}

\* position of a node in the node iteration order
Position(n) == CHOOSE i \in 1..Len(nodes) : nodes[i] = n

\* C7 as claimed: the nearest node is at minimal distance, and among
\* several such nodes it is the one with the lowest identifier.
C7_TieLowestIdentifier ==
    AfterNearest
    => /\ orig_node \in Closest(orig_point)
       /\ \A n \in Closest(orig_point) : orig_node <= n
       /\ target_node \in Closest(target_point)
       /\ \A n \in Closest(target_point) : target_node <= n

\* C7 amended: the nearest node is at minimal distance, and among several
\* such nodes it is the one that comes first in the graph's node iteration
\* order, whatever its identifier.
C7_TieFirstStored ==
    AfterNearest
    => /\ orig_node \in Closest(orig_point)
       /\ \A n \in Closest(orig_point) : Position(orig_node) <= Position(n)
       /\ target_node \in Closest(target_point)
       /\ \A n \in Closest(target_point) : Position(target_node) <= Position(n)

\* a tie for the origin that the first stored node wins over a lower id
C7_Witness ==
    /\ AfterNearest
    /\ \E n \in Closest(orig_point) : n < orig_node

\* C8: a query point that is the coordinate of a node resolves to a node at
\* that coordinate, at distance 0; the target node is the node selected
\* for the largest x, and its x is the maximum x.
C8_ExactPointResolves ==
    AfterNearest
    => /\ target_node = target_loc[1]
       /\ xy[target_node][1] = maxx
       /\ xy[target_node] = target_point
       /\ distances(target_node, target_xy) = 0
       /\ (\E n \in NodeSet : xy[n] = orig_point)
          => (xy[orig_node] = orig_point /\ distances(orig_node, orig_xy) = 0)

\* the easternmost node is neither the first stored nor alone at its y, and
\* the origin coincides with a node as well
C8_Witness ==
    /\ AfterNearest
    /\ nodes[1] # target_node
    /\ xy[nodes[1]][2] # xy[target_node][2]
    /\ xy[target_node][1] # xy[target_node][2]
    /\ xy[orig_node] = orig_point

\* C9: the shortest-path step weighs a node pair by the lightest of its
\* parallel edges: the distance it assigns to the target is the sum, over
\* the consecutive pairs of the returned route, of the weight of the
\* lightest parallel edge; the step leaves every edge in the graph.
C9_LightestParallelEdge ==
    [][(pc = "shortest_path" /\ pc' # "shortest_path")
       => /\ adj' = adj
          /\ route' # <<>>
             => ShortestPathLength(adj, orig_node, target_node, weight)
                  = PathCost(adj', route', weight)]_vars

\* a route by length over a pair joined by a short and a long parallel edge
C9_Witness ==
    /\ pc = "route_line"
    /\ weight = "length"
    /\ Len(route) = 3
    /\ \E i \in 1..2 : \E j, k \in Parallel(adj, route[i], route[i + 1]) :
          adj[route[i]][j].attrs.length < adj[route[i]][k].attrs.length

RECURSIVE ByHead(_, _, _)
\* an out-edge list reordered by ascending head identifier from v to max
ByHead(es, v, max) ==
    IF v > max THEN <<>>
    ELSE SelectSeq(es, LAMBDA e : e.v = v) \o ByHead(es, v + 1, max)

\* the graph with the neighbours of every node in ascending identifier order
LowestNeighbourFirst(G) ==
    [n \in DOMAIN G |-> ByHead(G[n], 1, Cardinality(DOMAIN G))]

====
